---- MODULE Spec2Model ----
(***************************************************************************)
(* Davis.js: the history normalizer (src/src/davis.history.js) and the     *)
(* application controller (src/src/davis.app.js).                          *)
(*                                                                         *)
(* Every operation of the program runs to completion on the single UI      *)
(* thread, so each one is one action.  What an operation did (the handlers *)
(* it invoked, the notifications it emitted, the route callbacks it ran)   *)
(* is recorded, in order, in `trace`; `op` names the operation.            *)
(***************************************************************************)
EXTENDS Integers, Sequences, FiniteSets, TLC

VARIABLES
  pushStateHandlers,  \* davis.history.js:20  the push-state handler list
  popStateListeners,  \* davis.history.js:40  window's 'popstate' listeners
  entries,            \* host session history: the entries
  cur,                \* host session history: index of the current entry
  running,            \* davis.app.js:4       App.running, per App
  listening,          \* Davis.listener: is the App intercepting clicks/submits
  callbacks,          \* Davis.event: per App, event name -> subscribers
  life,               \* observation: last lifecycle method called on each App
  starts,             \* observation: number of start() calls made on each App
  op,                 \* observation: the operation that just completed
  trace               \* observation: what that operation did, in order

vars == <<pushStateHandlers, popStateListeners, entries, cur, running,
          listening, callbacks, life, starts, op, trace>>

----------------------------------------------------------------------------
(* Bounds *)

MaxHandlers == 2
MaxHist == 2
MaxStops == 1

\* the Apps the page constructs; App 1 is the one most pages stop at
Apps == {1, 2}
FirstApp == {1}

----------------------------------------------------------------------------
(* Requests (Davis.Request), spec section 3 *)

\* the absent state of a history entry (event.state is null)
Null == [method |-> "", path |-> <<>>, params |-> {}, title |-> "", raw |-> "null"]

\* a Request that routes match, and one whose path no route has
ReqWelcome == [method |-> "get", path |-> <<"welcome", "bob">>, params |-> {},
               title |-> "Greet", raw |-> "click"]
ReqMissing == [method |-> "get", path |-> <<"missing">>,
               params |-> {<<"q", "x">>}, title |-> "Lost", raw |-> "click"]

Requests == {ReqWelcome, ReqMissing}

\* the page the program was loaded on: one a get route matches, one that
\* only a post route has
InitialPaths == {<<"welcome", "bob">>, <<"notes">>}
DocTitle == "Home"

\* Davis.Request.forPageLoad(): a get Request for window.location, no params
forPageLoad(location) ==
  [method |-> "get", path |-> location, params |-> {},
   title |-> DocTitle, raw |-> "null"]

----------------------------------------------------------------------------
(* Route table (Davis.Route), spec section 4.2 *)

Routes == <<
  [method |-> "get",  pattern |-> <<"welcome", ":name">>, name |-> "greet"],
  [method |-> "get",  pattern |-> <<"welcome", "bob">>,   name |-> "greetBob"],
  [method |-> "post", pattern |-> <<"notes">>,            name |-> "createNote"] >>

IsParam(seg) == seg \in {":name", ":id"}

\* a pattern matches a path of the same length whose literal segments agree
PatternMatches(pattern, path) ==
  /\ Len(pattern) = Len(path)
  /\ \A i \in 1..Len(pattern) : IsParam(pattern[i]) \/ pattern[i] = path[i]

RouteMatches(route, method, path) ==
  route.method = method /\ PatternMatches(route.pattern, path)

RECURSIVE scan(_, _, _)
scan(i, method, path) ==
  IF i > Len(Routes) THEN 0
  ELSE IF RouteMatches(Routes[i], method, path) THEN i
  ELSE scan(i + 1, method, path)

\* Davis.Route.lookup(method, path): index of the first matching route, 0 = none
lookup(method, path) == scan(1, method, path)

----------------------------------------------------------------------------
(* Trace entries *)

E(k, idx, self, what, sub, arg) ==
  [k |-> k, idx |-> idx, self |-> self, what |-> what, sub |-> sub, arg |-> arg,
   depth |-> 0, at |-> Null]

Events == {"start", "stop", "lookupRoute", "runRoute", "routeNotFound"}

----------------------------------------------------------------------------
(* Davis.event: bind / trigger *)

\* bind(eventName, callback): append the callback to the event's subscribers
bind(cbs, ev, sub) == [cbs EXCEPT ![ev] = Append(@, sub)]

RECURSIVE callEach(_, _, _, _, _)
callEach(subs, j, self, ev, arg) ==
  IF j > Len(subs) THEN <<>>
  ELSE <<E("callback", j, self, ev, subs[j], arg)>>
         \o callEach(subs, j + 1, self, ev, arg)

\* trigger(eventName, data): call every subscriber of the event, in order.
\* ctx is the push-state handler the trigger happens in (0 = none).
trigger(cbs, ctx, self, ev, arg) ==
  <<E("trigger", ctx, self, ev, "", arg)>> \o callEach(cbs[ev], 1, self, ev, arg)

----------------------------------------------------------------------------
(* davis.app.js: the onChange callback of start() *)

DispatchHandler(self) == [kind |-> "dispatch", self |-> self]
UserHandler == [kind |-> "user", self |-> 0]

\* mutant: the route's callback runs before runRoute is emitted
dispatchRunFirst(cbs, i, self, request) ==
  LET route == lookup(request.method, request.path) IN
    trigger(cbs, i, self, "lookupRoute", request)
    \o <<E("lookup", route, self, request.method, "", request)>>
    \o IF route # 0
       THEN <<E("run", route, self, Routes[route].name, "", request)>>
            \o trigger(cbs, i, self, "runRoute", request)
       ELSE trigger(cbs, i, self, "routeNotFound", request)

\* mutant: a lookup miss is dropped silently
dispatchNoElse(cbs, i, self, request) ==
  LET route == lookup(request.method, request.path) IN
    trigger(cbs, i, self, "lookupRoute", request)
    \o <<E("lookup", route, self, request.method, "", request)>>
    \o IF route # 0
       THEN trigger(cbs, i, self, "runRoute", request)
            \o <<E("run", route, self, Routes[route].name, "", request)>>
       ELSE <<>>

RECURSIVE runEveryMatch(_, _, _)
runEveryMatch(n, self, request) ==
  IF n > Len(Routes) THEN <<>>
  ELSE (IF RouteMatches(Routes[n], request.method, request.path)
        THEN <<E("run", n, self, Routes[n].name, "", request)>>
        ELSE <<>>)
       \o runEveryMatch(n + 1, self, request)

\* mutant: every route that matches is run, not the one lookup returned
dispatchRunsEveryMatch(cbs, i, self, request) ==
  LET route == lookup(request.method, request.path) IN
    trigger(cbs, i, self, "lookupRoute", request)
    \o <<E("lookup", route, self, request.method, "", request)>>
    \o IF route # 0
       THEN trigger(cbs, i, self, "runRoute", request)
            \o runEveryMatch(1, self, request)
       ELSE trigger(cbs, i, self, "routeNotFound", request)

\* davis.app.js:36-45
dispatch(cbs, i, self, request) ==
  LET route == lookup(request.method, request.path) IN
    trigger(cbs, i, self, "lookupRoute", request)
    \o <<E("lookup", route, self, request.method, "", request)>>
    \o IF route # 0
       THEN trigger(cbs, i, self, "runRoute", request)
            \o <<E("run", route, self, Routes[route].name, "", request)>>
       ELSE trigger(cbs, i, self, "routeNotFound", request)

----------------------------------------------------------------------------
(* davis.history.js *)

\* What a call into Davis.history works on: the handler lists, the host's
\* session history and the trace so far.
Machine ==
  [handlers |-> pushStateHandlers, listeners |-> popStateListeners,
   entries |-> entries, cur |-> cur, trace |-> <<>>]

log(m, es) == [m EXCEPT !.trace = @ \o es]

\* the entries a call made from inside a handler records lie one level deeper
Deepen(es) == [q \in 1..Len(es) |-> [es[q] EXCEPT !.depth = @ + 1]]

\* m after a call made from inside a handler, which took m to inner
nested(m, inner) == [inner EXCEPT !.trace = m.trace \o Deepen(inner.trace)]

\* davis.history.js:52-60
wrapped(handler) == [wraps |-> handler]

\* mutant: the popstate listener is put in front of the earlier ones
onChangeListensFirst(m, handler) ==
  log([m EXCEPT !.handlers = Append(@, handler),
                !.listeners = <<wrapped(handler)>> \o @],
      <<E("onChange", Len(m.handlers) + 1, handler.self, handler.kind, "", Null)>>)

\* mutant: the handler is registered for push/replace only
onChangePushOnly(m, handler) ==
  log([m EXCEPT !.handlers = Append(@, handler)],
      <<E("onChange", Len(m.handlers) + 1, handler.self, handler.kind, "", Null)>>)

\* davis.history.js:71-74
onChange(m, handler) ==
  log([m EXCEPT !.handlers = Append(@, handler),
                !.listeners = Append(@, wrapped(handler))],
      <<E("onChange", Len(m.handlers) + 1, handler.self, handler.kind, "", Null)>>)

\* mutant: the host keeps the entries after the current one and appends
hostPushStateKeepsForward(m, request) ==
  [m EXCEPT
     !.entries = Append(m.entries,
                        [state |-> request, title |-> request.title,
                         path |-> request.path]),
     !.cur = Len(m.entries) + 1]

\* history.pushState(state, title, url): drop the forward entries, append
hostPushState(m, request) ==
  [m EXCEPT
     !.entries = Append(SubSeq(m.entries, 1, m.cur),
                        [state |-> request, title |-> request.title,
                         path |-> request.path]),
     !.cur = m.cur + 1]

\* history.replaceState(state, title, url): overwrite the current entry
hostReplaceState(m, request) ==
  [m EXCEPT
     !.entries[m.cur] = [state |-> request, title |-> request.title,
                         path |-> request.path]]

\* handlers of application code that call back into Davis.history: one
\* redirects a Request it does not serve, one registers a further handler
\* unless that handler is registered already
RedirectHandler == [kind |-> "redirect", self |-> 0]
RegisterHandler == [kind |-> "register", self |-> 0]

RECURSIVE forEachHandler(_, _, _, _, _)
RECURSIVE replaceState(_, _, _)

\* calling one onChange handler: the App's dispatcher or a handler of
\* application code.  The entry records the host's current state at the call.
callHandler(m, cbs, i, handler, request) ==
  LET called == log(m, <<[E("handler", i, handler.self, handler.kind, "", request)
                            EXCEPT !.at = m.entries[m.cur].state]>>)
  IN CASE handler.kind = "dispatch" ->
            log(called, dispatch(cbs[handler.self], i, handler.self, request))
       [] handler.kind = "redirect" ->
            IF request = ReqMissing
            THEN nested(called,
                        replaceState([called EXCEPT !.trace = <<>>], cbs, ReqWelcome))
            ELSE called
       [] handler.kind = "register" ->
            IF \E j \in 1..Len(m.handlers) : m.handlers[j] = UserHandler
            THEN called
            ELSE onChange(called, UserHandler)
       [] OTHER -> called

\* mutant: the listener synthesizes a Request whatever the event's state
callWrappedAlwaysPageLoad(m, cbs, i, listener, state) ==
  LET request == forPageLoad(m.entries[m.cur].path) IN
    callHandler(log(m, <<E("forPageLoad", i, 0, "", "", request)>>),
                cbs, i, listener.wraps, request)

\* mutant: the listener passes the event's state on, present or not
callWrappedRawState(m, cbs, i, listener, state) ==
  callHandler(m, cbs, i, listener.wraps, state)

\* calling a wrapped listener with a popstate event; forPageLoad reads
\* window.location, the path of the host's current entry
callWrapped(m, cbs, i, listener, state) ==
  IF state # Null
  THEN callHandler(m, cbs, i, listener.wraps, state)
  ELSE LET request == forPageLoad(m.entries[m.cur].path) IN
         callHandler(log(m, <<E("forPageLoad", i, 0, "", "", request)>>),
                     cbs, i, listener.wraps, request)

\* mutant: the loop stops one handler short
RECURSIVE forEachHandlerShort(_, _, _, _, _)
forEachHandlerShort(m, cbs, n, i, request) ==
  IF i >= n THEN m
  ELSE forEachHandlerShort(callHandler(m, cbs, i, m.handlers[i], request),
                           cbs, n, i + 1, request)

\* mutant: the loop reads the list's length anew at every step
RECURSIVE forEachHandlerLive(_, _, _, _, _)
forEachHandlerLive(m, cbs, n, i, request) ==
  IF i > Len(m.handlers) THEN m
  ELSE forEachHandlerLive(callHandler(m, cbs, i, m.handlers[i], request),
                          cbs, n, i + 1, request)

\* pushStateHandlers.forEach(function (handler) { handler(request) }):
\* forEach visits the n elements the list had when it was called
forEachHandler(m, cbs, n, i, request) ==
  IF i > n THEN m
  ELSE forEachHandler(callHandler(m, cbs, i, m.handlers[i], request),
                      cbs, n, i + 1, request)

\* the host's dispatch of a popstate event to the n listeners window had
\* when the event was fired
RECURSIVE forEachListener(_, _, _, _, _)
forEachListener(m, cbs, n, i, state) ==
  IF i > n THEN m
  ELSE forEachListener(callWrapped(m, cbs, i, m.listeners[i], state),
                       cbs, n, i + 1, state)

\* davis.history.js:85-90; the history entry records history.length before
pushState(m, cbs, request) ==
  LET pushed == log(hostPushState(m, request),
                    <<E("history", Len(m.entries), 0, "pushState", "", request)>>)
  IN forEachHandler(pushed, cbs, Len(pushed.handlers), 1, request)

\* davis.history.js:101-106
replaceState(m, cbs, request) ==
  LET replaced == log(hostReplaceState(m, request),
                      <<E("history", Len(m.entries), 0, "replaceState", "", request)>>)
  IN forEachHandler(replaced, cbs, Len(replaced.handlers), 1, request)

----------------------------------------------------------------------------

TypeOK ==
  /\ cur \in 1..Len(entries)
  /\ Len(entries) <= MaxHist
  /\ Len(pushStateHandlers) <= MaxHandlers
  /\ running \in [Apps -> BOOLEAN]
  /\ listening \in [Apps -> BOOLEAN]

Init ==
  /\ pushStateHandlers = <<>>
  /\ popStateListeners = <<>>
  /\ \E p \in InitialPaths :
       entries = <<[state |-> Null, title |-> DocTitle, path |-> p]>>
  /\ cur = 1
  /\ running = [a \in Apps |-> FALSE]
  /\ listening = [a \in Apps |-> FALSE]
  /\ callbacks = [a \in Apps |-> [ev \in Events |-> <<>>]]
  /\ life = [a \in Apps |-> "new"]
  /\ starts = [a \in Apps |-> 0]
  /\ op = [name |-> "init", app |-> 0, arg |-> Null]
  /\ trace = <<>>

\* the state a call into Davis.history leaves behind
Commit(m) ==
  /\ Len(m.handlers) <= MaxHandlers
  /\ pushStateHandlers' = m.handlers
  /\ popStateListeners' = m.listeners
  /\ entries' = m.entries
  /\ cur' = m.cur
  /\ trace' = m.trace

\* application code calls Davis.history.pushState(request)
PushState(request) ==
  /\ cur < MaxHist
  /\ Commit(pushState(Machine, callbacks, request))
  /\ op' = [name |-> "pushState", app |-> 0, arg |-> request]
  /\ UNCHANGED <<running, listening, callbacks, life, starts>>

\* application code calls Davis.history.replaceState(request)
ReplaceState(request) ==
  /\ Commit(replaceState(Machine, callbacks, request))
  /\ op' = [name |-> "replaceState", app |-> 0, arg |-> request]
  /\ UNCHANGED <<running, listening, callbacks, life, starts>>

\* application code calls Davis.history.onChange(handler)
OnChange(handler) ==
  /\ Len(pushStateHandlers) < MaxHandlers
  /\ Commit(onChange(Machine, handler))
  /\ op' = [name |-> "onChange", app |-> 0, arg |-> Null]
  /\ UNCHANGED <<running, listening, callbacks, life, starts>>

\* the user goes back or forward: the host makes entry `target` current and
\* fires popstate, with that entry's state, at every listener in order
PopState(target) ==
  /\ target \in 1..Len(entries)
  /\ target # cur
  /\ Commit(forEachListener([Machine EXCEPT !.cur = target], callbacks,
                            Len(popStateListeners), 1, entries[target].state))
  /\ op' = [name |-> "popstate", app |-> 0, arg |-> entries[target].state]
  /\ UNCHANGED <<running, listening, callbacks, life, starts>>

\* Davis.listener: a link click or form submission that App a intercepts
\* becomes a Request and is pushed
Click(a, request) ==
  /\ listening[a]
  /\ cur < MaxHist
  /\ Commit(pushState(Machine, callbacks, request))
  /\ op' = [name |-> "click", app |-> a, arg |-> request]
  /\ UNCHANGED <<running, listening, callbacks, life, starts>>

\* a click or submission App a does not intercept: the host's default action
DefaultClick(a) ==
  /\ ~listening[a]
  /\ op' = [name |-> "defaultClick", app |-> a, arg |-> Null]
  /\ trace' = <<>>
  /\ UNCHANGED <<pushStateHandlers, popStateListeners, entries, cur, running,
                 listening, callbacks, life, starts>>

\* the notifications application code subscribes a handler to
ProbedEvents == {"stop", "lookupRoute"}

Subscribed(a, ev, sub) ==
  \E j \in 1..Len(callbacks[a][ev]) : callbacks[a][ev][j] = sub

StopCount(a) ==
  Cardinality({j \in 1..Len(callbacks[a]["stop"]) :
                 callbacks[a]["stop"][j] = "undefined"})

\* application code subscribes to one of the App's notifications
Bind(a, ev) ==
  /\ ~Subscribed(a, ev, "probe")
  /\ callbacks' = [callbacks EXCEPT ![a] = bind(@, ev, "probe")]
  /\ op' = [name |-> "bind", app |-> a, arg |-> Null]
  /\ trace' = <<>>
  /\ UNCHANGED <<pushStateHandlers, popStateListeners, entries, cur, running,
                 listening, life, starts>>

\* the three subscriptions start() makes, davis.app.js:22-31
DefaultBinds ==
  <<[ev |-> "runRoute", sub |-> "logRunRoute"],
    [ev |-> "routeNotFound", sub |-> "logRouteNotFound"],
    [ev |-> "start", sub |-> "logStart"]>>

\* mutant: start() subscribes to onChange only when the App is not running
StartSubscribesOnce(a) ==
  LET cbs == bind(bind(bind(callbacks[a], DefaultBinds[1].ev, DefaultBinds[1].sub),
                       DefaultBinds[2].ev, DefaultBinds[2].sub),
                  DefaultBinds[3].ev, DefaultBinds[3].sub)
      bound == [n \in 1..3 |->
                  E("bind", 0, a, DefaultBinds[n].ev, DefaultBinds[n].sub, Null)]
      started == log(Machine, bound \o <<E("listen", 0, a, "", "", Null)>>
                                \o trigger(cbs, 0, a, "start", Null))
      subscribed == IF running[a] THEN started
                    ELSE onChange(started, DispatchHandler(a))
  IN
  /\ Len(pushStateHandlers) < MaxHandlers
  /\ callbacks' = [callbacks EXCEPT ![a] = cbs]
  /\ listening' = [listening EXCEPT ![a] = TRUE]
  /\ Commit(log(subscribed, <<E("running", 0, a, "true", "", Null)>>))
  /\ running' = [running EXCEPT ![a] = TRUE]
  /\ life' = [life EXCEPT ![a] = "start"]
  /\ starts' = [starts EXCEPT ![a] = @ + 1]
  /\ op' = [name |-> "start", app |-> a, arg |-> Null]

\* mutant: start() subscribes to onChange before it emits `start`
StartSubscribesFirst(a) ==
  LET cbs == bind(bind(bind(callbacks[a], DefaultBinds[1].ev, DefaultBinds[1].sub),
                       DefaultBinds[2].ev, DefaultBinds[2].sub),
                  DefaultBinds[3].ev, DefaultBinds[3].sub)
      bound == [n \in 1..3 |->
                  E("bind", 0, a, DefaultBinds[n].ev, DefaultBinds[n].sub, Null)]
      listened == log(Machine, bound \o <<E("listen", 0, a, "", "", Null)>>)
      subscribed == onChange(listened, DispatchHandler(a))
  IN
  /\ Len(pushStateHandlers) < MaxHandlers
  /\ callbacks' = [callbacks EXCEPT ![a] = cbs]
  /\ listening' = [listening EXCEPT ![a] = TRUE]
  /\ Commit(log(subscribed, trigger(cbs, 0, a, "start", Null)
                              \o <<E("running", 0, a, "true", "", Null)>>))
  /\ running' = [running EXCEPT ![a] = TRUE]
  /\ life' = [life EXCEPT ![a] = "start"]
  /\ starts' = [starts EXCEPT ![a] = @ + 1]
  /\ op' = [name |-> "start", app |-> a, arg |-> Null]

\* davis.app.js:19-47
Start(a) ==
  LET cbs == bind(bind(bind(callbacks[a], DefaultBinds[1].ev, DefaultBinds[1].sub),
                       DefaultBinds[2].ev, DefaultBinds[2].sub),
                  DefaultBinds[3].ev, DefaultBinds[3].sub)
      bound == [n \in 1..3 |->
                  E("bind", 0, a, DefaultBinds[n].ev, DefaultBinds[n].sub, Null)]
      started == log(Machine, bound \o <<E("listen", 0, a, "", "", Null)>>
                                \o trigger(cbs, 0, a, "start", Null))
      subscribed == onChange(started, DispatchHandler(a))
  IN
  /\ Len(pushStateHandlers) < MaxHandlers
  /\ callbacks' = [callbacks EXCEPT ![a] = cbs]
  /\ listening' = [listening EXCEPT ![a] = TRUE]
  /\ Commit(log(subscribed, <<E("running", 0, a, "true", "", Null)>>))
  /\ running' = [running EXCEPT ![a] = TRUE]
  /\ life' = [life EXCEPT ![a] = "start"]
  /\ starts' = [starts EXCEPT ![a] = @ + 1]
  /\ op' = [name |-> "start", app |-> a, arg |-> Null]

NotDispatcherOf(a, handler) == ~(handler.kind = "dispatch" /\ handler.self = a)

\* mutant: stop() also removes the App's onChange subscriptions
StopUnsubscribes(a) ==
  /\ StopCount(a) < MaxStops
  /\ listening' = [listening EXCEPT ![a] = FALSE]
  /\ callbacks' = [callbacks EXCEPT ![a] = bind(@, "stop", "undefined")]
  /\ pushStateHandlers' =
       SelectSeq(pushStateHandlers, LAMBDA h : NotDispatcherOf(a, h))
  /\ popStateListeners' =
       SelectSeq(popStateListeners, LAMBDA l : NotDispatcherOf(a, l.wraps))
  /\ trace' = <<E("unlisten", 0, a, "", "", Null)>>
  /\ life' = [life EXCEPT ![a] = "stop"]
  /\ op' = [name |-> "stop", app |-> a, arg |-> Null]
  /\ UNCHANGED <<entries, cur, running, starts>>

\* mutant: stop() leaves the interception in place
StopKeepsListening(a) ==
  /\ StopCount(a) < MaxStops
  /\ callbacks' = [callbacks EXCEPT ![a] = bind(@, "stop", "undefined")]
  /\ trace' = <<>>
  /\ life' = [life EXCEPT ![a] = "stop"]
  /\ op' = [name |-> "stop", app |-> a, arg |-> Null]
  /\ UNCHANGED <<pushStateHandlers, popStateListeners, entries, cur, running,
                 listening, starts>>

\* davis.app.js:49-52
Stop(a) ==
  /\ StopCount(a) < MaxStops
  /\ listening' = [listening EXCEPT ![a] = FALSE]
  /\ callbacks' = [callbacks EXCEPT ![a] = bind(@, "stop", "undefined")]
  /\ trace' = <<E("unlisten", 0, a, "", "", Null),
                E("bind", 0, a, "stop", "undefined", Null)>>
  /\ life' = [life EXCEPT ![a] = "stop"]
  /\ op' = [name |-> "stop", app |-> a, arg |-> Null]
  /\ UNCHANGED <<pushStateHandlers, popStateListeners, entries, cur, running,
                 starts>>

Next ==
  \/ \E r \in Requests : PushState(r)
  \/ \E r \in Requests : ReplaceState(r)
  \/ OnChange(UserHandler)
  \/ \E t \in 1..MaxHist : PopState(t)
  \/ \E a \in FirstApp, r \in Requests : Click(a, r)
  \/ \E a \in FirstApp : DefaultClick(a)
  \/ \E a \in FirstApp, ev \in ProbedEvents : Bind(a, ev)
  \/ \E a \in FirstApp : Start(a)
  \/ \E a \in FirstApp : Stop(a)

Spec == Init /\ [][Next]_vars

\* The history normalizer with handlers of application code that call back
\* into it while a dispatch is in progress.
NextReentrant ==
  \/ \E r \in Requests : PushState(r)
  \/ \E r \in Requests : ReplaceState(r)
  \/ \E h \in {UserHandler, RedirectHandler, RegisterHandler} : OnChange(h)
  \/ \E t \in 1..MaxHist : PopState(t)
  \/ \E a \in FirstApp : Start(a)

SpecReentrant == Init /\ [][NextReentrant]_vars

\* A page with several Apps, each started and stopped any number of times.
NextApps ==
  \/ \E r \in Requests : PushState(r)
  \/ \E r \in Requests : ReplaceState(r)
  \/ \E t \in 1..MaxHist : PopState(t)
  \/ \E a \in Apps : Start(a)
  \/ \E a \in Apps : Stop(a)

SpecApps == Init /\ [][NextApps]_vars

----------------------------------------------------------------------------
(* Reading the trace *)

IsHandlerCall(e) == e.k = "handler"

\* the onChange handler invocations of the last operation, in order
HandlerCalls == SelectSeq(trace, IsHandlerCall)

\* the last operation called pushState or replaceState with op.arg
Pushed == op.name \in {"pushState", "replaceState", "click"}

\* the call HandlerCalls[i] is a call of the i-th registered handler
CallOf(i) ==
  /\ HandlerCalls[i].idx = i
  /\ HandlerCalls[i].what = pushStateHandlers[i].kind
  /\ HandlerCalls[i].self = pushStateHandlers[i].self

IsRequest(r) ==
  /\ r # Null
  /\ r \in Requests \cup {forPageLoad(p) : p \in InitialPaths}

----------------------------------------------------------------------------
(* C1: a pushState or replaceState call invokes every handler registered  *)
(* through onChange exactly once, in registration order, each with the    *)
(* Request that was passed to the call.                                    *)
C1_PushInvokesEachHandlerOnce ==
  Pushed =>
    /\ Len(HandlerCalls) = Len(pushStateHandlers)
    /\ \A i \in 1..Len(HandlerCalls) : CallOf(i) /\ HandlerCalls[i].arg = op.arg

C1_Witness ==
  /\ op.name \in {"pushState", "replaceState"}
  /\ Len(pushStateHandlers) = 2
  /\ pushStateHandlers[1] # pushStateHandlers[2]
  /\ Len(HandlerCalls) = 2

(* C2: a popstate event invokes every handler registered through onChange *)
(* exactly once, in registration order, each with one Request.             *)
C2_PopInvokesEachHandlerOnce ==
  op.name = "popstate" =>
    /\ Len(HandlerCalls) = Len(pushStateHandlers)
    /\ \A i \in 1..Len(HandlerCalls) : CallOf(i) /\ IsRequest(HandlerCalls[i].arg)

C2_Witness ==
  /\ op.name = "popstate"
  /\ Len(pushStateHandlers) = 2
  /\ pushStateHandlers[1] # pushStateHandlers[2]
  /\ Len(HandlerCalls) = 2


----------------------------------------------------------------------------
(* Reading the trace, continued *)

TracePos == 1..Len(trace)

\* the last operation delivered a Request to the onChange handlers
Delivered == Pushed \/ op.name = "popstate"

Hit(r) == \E n \in 1..Len(Routes) : RouteMatches(Routes[n], r.method, r.path)

\* the position after p where the next handler's turn begins
Boundary(p) ==
  LET later == {q \in (p + 1)..Len(trace) : trace[q].k \in {"handler", "forPageLoad"}}
  IN IF later = {} THEN Len(trace) + 1
     ELSE CHOOSE q \in later : \A q2 \in later : q <= q2

NotCallback(e) == e.k # "callback"

\* what the handler called at position p did, subscribers' calls left out
Steps(p) == SelectSeq(SubSeq(trace, p + 1, Boundary(p) - 1), NotCallback)

Emitted(e, i, self, ev, r) ==
  e = E("trigger", i, self, ev, "", r)

\* the number of trace entries of kind k, named what, made for App a
CountOf(k, what, a) ==
  Cardinality({q \in TracePos :
                 trace[q].k = k /\ trace[q].what = what /\ trace[q].self = a})

Runs == {q \in TracePos : trace[q].k = "run"}

RECURSIVE SumStarts(_)
SumStarts(S) ==
  IF S = {} THEN 0
  ELSE LET a == CHOOSE x \in S : TRUE IN starts[a] + SumStarts(S \ {a})

\* the number of start() calls made so far
TotalStarts == SumStarts(Apps)

RouteNotFounds ==
  {q \in TracePos : trace[q].k = "trigger" /\ trace[q].what = "routeNotFound"}

----------------------------------------------------------------------------
(* C3: for each Request delivered to the App's onChange callback, the App *)
(* emits lookupRoute with the Request, looks the route up by the Request's *)
(* method and path, and then either emits runRoute and afterwards runs the *)
(* matched route's callback with the Request (hit) or emits routeNotFound  *)
(* (miss): never both, and never the callback before runRoute.             *)
DispatchedInOrder(p) ==
  LET r == trace[p].arg
      i == trace[p].idx
      a == trace[p].self
      d == Steps(p)
  IN /\ Len(d) >= 3
     /\ Emitted(d[1], i, a, "lookupRoute", r)
     /\ d[2].k = "lookup" /\ d[2].what = r.method /\ d[2].arg.path = r.path
     /\ IF Hit(r)
        THEN /\ Len(d) = 4
             /\ Emitted(d[3], i, a, "runRoute", r)
             /\ d[4].k = "run" /\ d[4].arg = r /\ d[4].idx = d[2].idx
             /\ d[4].idx \in 1..Len(Routes)
             /\ RouteMatches(Routes[d[4].idx], r.method, r.path)
        ELSE /\ Len(d) = 3
             /\ Emitted(d[3], i, a, "routeNotFound", r)

C3_DispatchOrder ==
  \A p \in TracePos :
    (trace[p].k = "handler" /\ trace[p].what = "dispatch") => DispatchedInOrder(p)

C3_Witness ==
  /\ Delivered
  /\ Hit(op.arg)
  /\ \E p \in TracePos : trace[p].k = "handler" /\ trace[p].what = "dispatch"
  /\ Runs # {}
  /\ \E a \in Apps : callbacks[a]["runRoute"] # <<>>

(* C4: every call to stop() invokes, once, each handler subscribed to the *)
(* App's stop event.                                                       *)
C4_StopNotifiesSubscribers ==
  op.name = "stop" =>
    \A j \in 1..Len(callbacks[op.app]["stop"]) :
      callbacks[op.app]["stop"][j] = "probe" =>
        Cardinality({q \in TracePos :
                       /\ trace[q].k = "callback" /\ trace[q].what = "stop"
                       /\ trace[q].idx = j}) = 1

(* C5: running is false on construction, true after start() and false     *)
(* again after stop().                                                     *)
C5_RunningFollowsLifecycle ==
  \A a \in Apps :
    /\ life[a] = "new" => ~running[a]
    /\ life[a] = "start" => running[a]
    /\ life[a] = "stop" => ~running[a]

(* C6, as claimed: an intercepted click matching no route results in      *)
(* exactly one routeNotFound notification and no route callback, whatever  *)
(* calls preceded it.                                                      *)
C6_ExactlyOneRouteNotFound ==
  (op.name = "click" /\ ~Hit(op.arg)) =>
    Cardinality(RouteNotFounds) = 1 /\ Runs = {}

(* C6, amended: an intercepted click matching no route results in one     *)
(* routeNotFound notification for each start() call made so far, and in no *)
(* route callback.                                                         *)
C6_OneRouteNotFoundPerStart ==
  (op.name = "click" /\ ~Hit(op.arg)) =>
    Cardinality(RouteNotFounds) = TotalStarts /\ Runs = {}

C6_Witness ==
  /\ op.name = "click"
  /\ ~Hit(op.arg)
  /\ TotalStarts = 2
  /\ Cardinality(RouteNotFounds) = 2

\* one step: the entries change only by a push or a replace, which stores
\* the Request in the current entry; a popstate carrying a state hands that
\* state to every handler and calls forPageLoad for none
RoundTrip ==
  /\ Pushed' =>
       /\ entries'[cur'].state = op'.arg
       /\ \A n \in 1..Len(entries') : n # cur' => entries'[n] = entries[n]
  /\ ~Pushed' => entries' = entries
  /\ (op'.name = "popstate" /\ entries[cur'].state # Null) =>
       /\ entries[cur'].state \in Requests
       /\ Len(HandlerCalls') = Len(pushStateHandlers)
       /\ \A i \in 1..Len(HandlerCalls') :
            HandlerCalls'[i].arg = entries[cur'].state
       /\ \A q \in 1..Len(trace') : trace'[q].k # "forPageLoad"

(* C7: a popstate event that carries a state delivers that state to every *)
(* onChange handler and synthesizes no Request; that state is the Request  *)
(* pushState or replaceState put into the entry, which no later operation  *)
(* changes while the entry exists.                                         *)
C7_PresentStateRoundTrips == [][RoundTrip]_vars

C7_Witness ==
  /\ op.name = "popstate"
  /\ entries[cur].state # Null
  /\ Len(HandlerCalls) = 2

(* C8: a popstate event without a state delivers to every onChange        *)
(* handler a page-load Request for the current location, with no           *)
(* parameters, and never the absent state.                                 *)
C8_AbsentStateSynthesized ==
  (op.name = "popstate" /\ entries[cur].state = Null) =>
    \A i \in 1..Len(HandlerCalls) :
      /\ HandlerCalls[i].arg # Null
      /\ HandlerCalls[i].arg.method = "get"
      /\ HandlerCalls[i].arg.path = entries[cur].path
      /\ HandlerCalls[i].arg.params = {}
      /\ Cardinality({q \in TracePos : /\ trace[q].k = "forPageLoad"
                                        /\ trace[q].idx = i
                                        /\ trace[q].arg = HandlerCalls[i].arg}) = 1

C8_Witness ==
  /\ op.name = "popstate"
  /\ entries[cur].state = Null
  /\ Len(HandlerCalls) = 2

(* C9: after start() followed by stop(), every pushState, replaceState    *)
(* and popstate is still dispatched by the App: lookupRoute, then runRoute *)
(* and the route's callback, or routeNotFound.                             *)
C9_StoppedAppStillDispatches ==
  \A a \in Apps :
    (life[a] = "stop" /\ starts[a] >= 1 /\ Delivered) =>
      /\ CountOf("handler", "dispatch", a) = starts[a]
      /\ CountOf("trigger", "lookupRoute", a) = starts[a]
      /\ IF Hit(HandlerCalls[1].arg)
         THEN /\ CountOf("trigger", "runRoute", a) = starts[a]
              /\ Cardinality({q \in Runs : trace[q].self = a}) = starts[a]
         ELSE CountOf("trigger", "routeNotFound", a) = starts[a]

C9_Witness ==
  \E a \in Apps :
    /\ life[a] = "stop"
    /\ starts[a] >= 1
    /\ op.name = "popstate"
    /\ CountOf("trigger", "lookupRoute", a) >= 1

(* C10: after stop() and until the next start(), the App intercepts no    *)
(* link click and no form submission: none produces a Request or a         *)
(* pushState.                                                              *)
C10_NoInterceptionWhileStopped ==
  /\ \A a \in Apps : life[a] = "stop" => ~listening[a]
  /\ op.name = "click" => life[op.app] = "start"
  /\ op.name = "defaultClick" =>
       /\ life[op.app] # "start"
       /\ trace = <<>>

C10_Witness ==
  /\ op.name = "defaultClick"
  /\ life[op.app] = "stop"
  /\ starts[op.app] >= 1

----------------------------------------------------------------------------
IsPrefix(s, t) == Len(s) <= Len(t) /\ SubSeq(t, 1, Len(s)) = s

(* C11: the push-state handler list and the popstate listener list are    *)
(* append-only: in every step the list before is a prefix of the list      *)
(* after, so no handler is ever removed or reordered.                      *)
C11_ListsAppendOnly ==
  [][/\ IsPrefix(pushStateHandlers, pushStateHandlers')
     /\ IsPrefix(popStateListeners, popStateListeners')]_vars

C11_Witness ==
  /\ op.name = "stop"
  /\ Len(pushStateHandlers) = 2
  /\ Len(popStateListeners) = 2

----------------------------------------------------------------------------
\* the routes that match a Request, by their place in the table
Matching(r) == {n \in 1..Len(Routes) : RouteMatches(Routes[n], r.method, r.path)}

\* the route callbacks the handler called at position p ran
RunsOf(p) == {q \in (p + 1)..(Boundary(p) - 1) : trace[q].k = "run"}

(* C12: when several registered routes match a delivered Request, the     *)
(* App's dispatch runs the callback of the route registered first, only    *)
(* that one, and once.                                                     *)
C12_FirstRegisteredRouteRuns ==
  \A p \in TracePos :
    (/\ trace[p].k = "handler" /\ trace[p].what = "dispatch"
     /\ Matching(trace[p].arg) # {}) =>
      /\ Cardinality(RunsOf(p)) = 1
      /\ \A q \in RunsOf(p) :
           /\ trace[q].idx \in Matching(trace[p].arg)
           /\ \A n \in Matching(trace[p].arg) : trace[q].idx <= n
           /\ trace[q].what = Routes[trace[q].idx].name
           /\ trace[q].arg = trace[p].arg

C12_Witness ==
  \E p \in TracePos :
    /\ trace[p].k = "handler" /\ trace[p].what = "dispatch"
    /\ Cardinality(Matching(trace[p].arg)) >= 2
    /\ \E q \in RunsOf(p) : trace[q].what = "greet"

----------------------------------------------------------------------------
(* Reading the trace of a dispatch with calls made from inside handlers *)

ArgsOf(es) == [q \in 1..Len(es) |-> es[q].arg]

\* the Requests the i-th handler was called with during the last operation
Observed(i) ==
  ArgsOf(SelectSeq(trace, LAMBDA e : e.k = "handler" /\ e.idx = i))

\* the Requests pushState and replaceState were called with, in call order
Changes == ArgsOf(SelectSeq(trace, LAMBDA e : e.k = "history"))

\* the handlers the last operation itself called
CalledAtTop ==
  {trace[q].idx : q \in {x \in TracePos : trace[x].k = "handler" /\ trace[x].depth = 0}}

(* C13: all onChange handlers observe one and the same sequence of        *)
(* Requests, in the order the location changes were made, also when a      *)
(* handler calls pushState or replaceState while a dispatch is in progress.*)
C13_OneOrderedStream ==
  /\ \A i, j \in CalledAtTop : Observed(i) = Observed(j)
  /\ Pushed => \A i \in CalledAtTop : Observed(i) = Changes

----------------------------------------------------------------------------
\* the handlers onChange registered during the last operation
Registered == {q \in TracePos : trace[q].k = "onChange"}

\* the number of handlers registered when the last operation began
HandlersBefore == Len(pushStateHandlers) - Cardinality(Registered)

(* C14: pushState records the new entry in the host history before any    *)
(* handler is invoked, so every handler runs with the pushed Request as    *)
(* the current history entry, and all handlers have run by the time        *)
(* pushState returns.                                                      *)
C14_EntryRecordedBeforeHandlers ==
  op.name \in {"pushState", "click"} =>
    /\ Len(trace) >= 1
    /\ trace[1].k = "history" /\ trace[1].what = "pushState"
    /\ trace[1].arg = op.arg
    /\ \A q \in TracePos :
         (trace[q].k = "handler" /\ trace[q].depth = 0) => trace[q].at = op.arg
    /\ CalledAtTop = 1..HandlersBefore

----------------------------------------------------------------------------
\* the host history entry made from a Request
EntryOf(request) ==
  [state |-> request, title |-> request.title, path |-> request.path]

\* the step called every handler registered, once and in order, with the
\* Request of the call, after the one write to the host history
SameDispatch ==
  /\ trace'[1].k = "history"
  /\ \A q \in 2..Len(trace') : trace'[q].k # "history"
  /\ LET calls == SelectSeq(trace', IsHandlerCall)
     IN /\ Len(calls) = Len(pushStateHandlers)
        /\ \A i \in 1..Len(calls) :
             /\ calls[i].idx = i
             /\ calls[i].what = pushStateHandlers[i].kind
             /\ calls[i].self = pushStateHandlers[i].self
             /\ calls[i].arg = op'.arg

\* the claim as stated: pushState always makes the history one entry longer
PushAddsOneEntry ==
  /\ op'.name \in {"pushState", "click"} =>
       /\ Len(entries') = Len(entries) + 1
       /\ entries'[cur'] = EntryOf(op'.arg)
       /\ SameDispatch
  /\ op'.name = "replaceState" =>
       /\ Len(entries') = Len(entries)
       /\ entries'[cur'] = EntryOf(op'.arg)
       /\ SameDispatch

C15_PushAddsOneEntry == [][PushAddsOneEntry]_vars

\* pushState puts the new entry directly after the current one
PushFollowsCurrent ==
  /\ op'.name \in {"pushState", "click"} =>
       /\ entries' = Append(SubSeq(entries, 1, cur), EntryOf(op'.arg))
       /\ cur' = cur + 1
       /\ SameDispatch
  /\ op'.name = "replaceState" =>
       /\ entries' = [entries EXCEPT ![cur] = EntryOf(op'.arg)]
       /\ cur' = cur
       /\ SameDispatch

(* C15: replaceState overwrites the current host history entry with the   *)
(* Request and leaves the number of entries unchanged; pushState makes    *)
(* the Request the entry after the current one and drops the entries that *)
(* followed it, so the number grows by one only when the current entry    *)
(* was the last; both invoke the same handlers in the same way.           *)
C15_PushFollowsCurrent == [][PushFollowsCurrent]_vars

\* a pushState made after going back: a handler was called and the history
\* is as long as it was before the call
C15_Witness ==
  /\ op.name = "pushState"
  /\ trace[1].k = "history"
  /\ trace[1].idx = Len(entries)
  /\ cur = Len(entries)
  /\ Len(HandlerCalls) >= 1

----------------------------------------------------------------------------
\* App a has an onChange subscription with the history normalizer
SubscribedToOnChange(a) ==
  \E i \in 1..Len(pushStateHandlers) : pushStateHandlers[i] = DispatchHandler(a)

\* the steps of the start() call just made, in the order the claim gives:
\* three binds, listen, the start notification with its handlers (the
\* logger bound a moment before among them), onChange, running = true
StartOrder ==
  LET t == trace'
      n == Len(t)
      a == op'.app
  IN /\ n >= 8
     /\ \A q \in 1..3 :
          t[q] = E("bind", 0, a, DefaultBinds[q].ev, DefaultBinds[q].sub, Null)
     /\ t[4].k = "listen"
     /\ t[5] = E("trigger", 0, a, "start", "", Null)
     /\ \A q \in 6..(n - 2) : t[q].k = "callback" /\ t[q].what = "start"
     /\ t[n - 2].sub = "logStart"
     /\ t[n - 1].k = "onChange" /\ t[n - 1].what = "dispatch" /\ t[n - 1].self = a
     /\ t[n].k = "running" /\ t[n].self = a
     /\ running'[a]

\* the claim as stated: the handlers of `start` always run before running
\* is true and before the App is subscribed
StartHandlersRunUnsubscribed ==
  op'.name = "start" =>
    /\ StartOrder
    /\ ~running[op'.app]
    /\ ~SubscribedToOnChange(op'.app)

C16_StartHandlersRunUnsubscribed == [][StartHandlersRunUnsubscribed]_vars

StartHandlersOfFirstStart ==
  op'.name = "start" =>
    /\ StartOrder
    /\ starts[op'.app] = 0 =>
         ~running[op'.app] /\ ~SubscribedToOnChange(op'.app)
    /\ starts[op'.app] > 0 =>
         running[op'.app] /\ SubscribedToOnChange(op'.app)

(* C16: start() binds the three default subscriptions, begins the         *)
(* interception, emits `start`, subscribes to onChange and sets running,  *)
(* in this order; on an App's first start() the handlers of `start`       *)
(* therefore run while running is false and the App is not subscribed,    *)
(* on every later start() they run with running true and the App          *)
(* subscribed.                                                             *)
C16_StartOrder == [][StartHandlersOfFirstStart]_vars

\* a first start() whose notification reached a handler of the application
C16_Witness ==
  /\ op.name = "start"
  /\ starts[op.app] = 1
  /\ \E q \in TracePos :
       trace[q].k = "callback" /\ trace[q].what = "start" /\ trace[q].sub = "logStart"
  /\ trace[Len(trace)].k = "running"

----------------------------------------------------------------------------
\* the lookupRoute notifications of the last operation
Lookups ==
  {q \in TracePos : trace[q].k = "trigger" /\ trace[q].what = "lookupRoute"}

\* the executions of route callbacks made for the Request r
RunsFor(r) ==
  {p \in Runs : trace[p].arg = r /\ trace[p].idx = lookup(r.method, r.path)}

(* C17: every start() adds one onChange subscription that is never        *)
(* removed: after k calls to start(), on one App or several, with or      *)
(* without stop() in between, one pushState, replaceState or popstate      *)
(* produces exactly k lookupRoute notifications and, on a hit, k           *)
(* executions of the matched route's callback.                             *)
C17_OneDispatchPerStart ==
  /\ \A a \in Apps :
       Cardinality({i \in 1..Len(pushStateHandlers) :
                      pushStateHandlers[i] = DispatchHandler(a)}) = starts[a]
  /\ Delivered =>
       /\ Cardinality(Lookups) = TotalStarts
       /\ \A a \in Apps : CountOf("trigger", "lookupRoute", a) = starts[a]
       /\ \A q \in Lookups :
            /\ Cardinality(RunsFor(trace[q].arg)) =
                 IF Hit(trace[q].arg) THEN TotalStarts ELSE 0
            /\ Cardinality(Runs) = Cardinality(RunsFor(trace[q].arg))

\* two Apps, each started once and one of them stopped since: a popstate
\* ran the matched route's callback twice
C17_Witness ==
  /\ op.name = "popstate"
  /\ starts[1] = 1 /\ starts[2] = 1
  /\ \E a \in Apps : life[a] = "stop"
  /\ Cardinality(Lookups) = 2
  /\ Cardinality(Runs) = 2

----------------------------------------------------------------------------
\* the i-th popstate listener is the wrapper of the i-th push-state handler
Paired ==
  /\ Len(popStateListeners) = Len(pushStateHandlers)
  /\ \A i \in 1..Len(pushStateHandlers) :
       popStateListeners[i] = wrapped(pushStateHandlers[i])

\* one step: each list grows by one element for every onChange call the
\* step made, and changes in no other way
OnlyOnChangeExtends ==
  LET calls == Cardinality({q \in 1..Len(trace') : trace'[q].k = "onChange"})
  IN /\ Len(pushStateHandlers') = Len(pushStateHandlers) + calls
     /\ Len(popStateListeners') = Len(popStateListeners) + calls
     /\ IsPrefix(pushStateHandlers, pushStateHandlers')
     /\ IsPrefix(popStateListeners, popStateListeners')

(* C18: in every reachable state there are as many push-path handlers as  *)
(* popstate listeners and the i-th listener wraps the i-th handler;       *)
(* onChange is the only operation that changes either list, and it        *)
(* extends both by one.                                                    *)
C18_ListsPaired == []Paired /\ [][OnlyOnChangeExtends]_vars

\* two different handlers are registered, the second by the last operation
C18_Witness ==
  /\ Len(pushStateHandlers) = 2
  /\ pushStateHandlers[1] # pushStateHandlers[2]
  /\ popStateListeners[2] = wrapped(pushStateHandlers[2])
  /\ \E q \in TracePos : trace[q].k = "onChange" /\ trace[q].idx = 2

----------------------------------------------------------------------------
\* the idx of the handlers the step's own forEach called, in call order
TopCalls(t) ==
  LET top == SelectSeq(t, LAMBDA e : e.k = "handler" /\ e.depth = 0)
  IN [q \in 1..Len(top) |-> top[q].idx]

\* a step that dispatches a change calls the handlers registered before the
\* step, each once and in order, and none registered during the step
CallsRegisteredBefore ==
  Delivered' =>
    TopCalls(trace') = [i \in 1..Len(pushStateHandlers) |-> i]

(* C19: a handler registered through onChange from inside a running       *)
(* handler, while a pushState or replaceState dispatch is in progress, is *)
(* not invoked for the change being dispatched; it is invoked for every   *)
(* later change.                                                           *)
C19_LateHandlerMissesChange == [][CallsRegisteredBefore]_vars

\* a pushState or replaceState during which a handler registered a second
\* handler: the first was called, the second was not
C19_Witness ==
  /\ op.name \in {"pushState", "replaceState"}
  /\ Len(pushStateHandlers) = 2
  /\ \E q \in TracePos :
       /\ trace[q].k = "onChange" /\ trace[q].idx = 2
       /\ \E p \in 1..(q - 1) : trace[p].k = "handler" /\ trace[p].what = "register"
  /\ TopCalls(trace) = <<1>>

----------------------------------------------------------------------------
(* C20: whenever an App's running flag is true the App has at least one   *)
(* onChange subscription; the converse does not hold, since a subscribed  *)
(* App can have running = false: the App that was started and then        *)
(* stopped is subscribed and not running.                                  *)
C20_RunningImpliesSubscribed ==
  \A a \in Apps :
    /\ running[a] => SubscribedToOnChange(a)
    /\ (life[a] = "stop" /\ starts[a] >= 1) =>
         SubscribedToOnChange(a) /\ ~running[a]

====
